---- MODULE Spec2Model ----
(***************************************************************************)
(* A model of ec.hpp, a single-header entity/component store.  A World     *)
(* owns a liveness table, an entity counter, a type registry (typeMap,     *)
(* typeCounter) and a table of type-erased pools; the free functions       *)
(* create_entity, destroy_entity, add_component, get_component,            *)
(* remove_component and query act on one World passed by reference.        *)
(*                                                                         *)
(* C++ vectors are 0-based; they are modelled as sequences, element k of   *)
(* the vector being element k+1 of the sequence.                           *)
(***************************************************************************)
EXTENDS Integers, Sequences, FiniteSets, TLC

\* ------------------------------------------------------------------ bounds

\* create_entity is called at most MaxEntities times per World (single World).
MaxEntities == 2

\* create_entity is called at most MaxEntitiesTwo times per World (two Worlds).
MaxEntitiesTwo == 1

\* Width of the Entity counter in the model (std::uint32_t in the source).
EntityBits == 3

\* create_entity is called at most MaxWrapped times after the counter has
\* wrapped around.
MaxWrapped == 1

EntityRange == 2 ^ EntityBits

\* Component types used by the callers, and the ones used with two Worlds.
Types == {"Position", "Velocity"}

TypesTwo == {"Health"}

\* Component values; DefaultValue is what vector::resize value-initialises to.
DefaultValue == 0

Values == {0, 1}

ValuesOne == {1}

\* Type packs a caller instantiates query with.
QueryPacks(types) == {<<t>> : t \in types} \cup {<<a, b>> : a, b \in types}

\* Packs of one type, and of two different types in either order.
QueryPacksDistinct(types) == {p \in QueryPacks(types) : Len(p) = 1 \/ p[1] # p[2]}

\* ------------------------------------------------------------------- state

VARIABLES
    worlds,         \* World id -> World object
    hashOf,         \* component type -> typeid(T).hash_code()
    pc,             \* "running", or "crashed" once the process has died
    last,           \* the call made last, with its arguments and results
    issued,         \* World id -> the IDs create_entity returned, in call order
    added,          \* World id -> the types add_component attached successfully
    used,           \* World id -> the types passed to a call that resolved them
    destroyCalled,  \* World id -> the destroy_entity calls made
    trail           \* the (World, entity, type) triples with an add/remove pattern seen

vars == <<worlds, hashOf, pc, last, issued, added, used, destroyCalled, trail>>

\* ----------------------------------------------------------------- helpers

At(s, k) == s[k + 1]

\* std::vector::resize(n, fill), growing or shrinking.
Resize(s, n, fill) == [k \in 1..n |-> IF k <= Len(s) THEN s[k] ELSE fill]

SetAt(s, k, x) == [s EXCEPT ![k + 1] = x]

\* An empty std::unique_ptr<PoolBase>.
NullPool == [null |-> TRUE, type |-> "none", data |-> <<>>, mask |-> <<>>]

\* std::make_unique<Pool<T>>(): two empty vectors.
NewPool(t) == [null |-> FALSE, type |-> t, data |-> <<>>, mask |-> <<>>]

\* Pool<T>::ensureSize as it would be with the vectors rebuilt on growth
\* (assign in place of resize): the stored values and flags are lost.
Pool_ensureSizeResets(p, n) ==
    IF Len(p.data) < n
    THEN [p EXCEPT !.data = Resize(<<>>, n, DefaultValue),
                   !.mask = Resize(<<>>, n, 0)]
    ELSE p

\* Pool<T>::ensureSize
Pool_ensureSize(p, n) ==
    IF Len(p.data) < n
    THEN [p EXCEPT !.data = Resize(p.data, n, DefaultValue),
                   !.mask = Resize(p.mask, n, 0)]
    ELSE p

\* World::World: empty vectors and map, both counters 0 (reserve sets capacity only).
NewWorld ==
    [alive |-> <<>>, nextEntity |-> 0, pools |-> <<>>,
     typeMap |-> <<>>, typeCounter |-> 0]

\* World::getTypeId<T>, h being typeid(T).hash_code(): the World after the call
\* and the id returned.
getTypeId(w, h) ==
    IF h \in DOMAIN w.typeMap
    THEN [w |-> w, id |-> w.typeMap[h]]
    ELSE LET id == w.typeCounter
             grown == IF id >= Len(w.pools)
                      THEN Resize(w.pools, id + 1, NullPool)
                      ELSE w.pools
         IN  [w  |-> [w EXCEPT !.typeCounter = id + 1,
                               !.typeMap = (h :> id) @@ w.typeMap,
                               !.pools = grown],
              id |-> id]

\* World::ensureEntity as it would be without the loop over the pools: only
\* the liveness table grows.
ensureEntityAliveOnly(w, e) ==
    IF e >= Len(w.alive)
    THEN [w EXCEPT !.alive = Resize(w.alive, e + 1, 0)]
    ELSE w

\* World::ensureEntity
ensureEntity(w, e) ==
    IF e >= Len(w.alive)
    THEN [w EXCEPT !.alive = Resize(w.alive, e + 1, 0),
                   !.pools = [k \in 1..Len(w.pools) |->
                                 IF w.pools[k].null THEN w.pools[k]
                                 ELSE Pool_ensureSize(w.pools[k], e + 1)]]
    ELSE w

\* World::ensurePool<T> as it would be without the test for an existing
\* pool: a new Pool<T> replaces the one in the slot.
ensurePoolAlwaysMakes(w, typeId, t) ==
    [w EXCEPT !.pools = SetAt(w.pools, typeId, Pool_ensureSize(NewPool(t), Len(w.alive)))]

\* World::ensurePool<T>: the World after the call; the pool returned is
\* pools[typeId] of that World.
ensurePool(w, typeId, t) ==
    LET made == IF At(w.pools, typeId).null THEN NewPool(t) ELSE At(w.pools, typeId)
    IN  [w EXCEPT !.pools = SetAt(w.pools, typeId, Pool_ensureSize(made, Len(w.alive)))]

\* create_entity as it would be with a free list: the lowest destroyed ID is
\* handed out again before the counter is advanced.
create_entityReusesDead(w) ==
    LET dead == {e \in 0..(Len(w.alive) - 1) : At(w.alive, e) = 0}
    IN  IF dead # {}
        THEN LET id == CHOOSE e \in dead : \A d \in dead : e <= d
             IN  [w |-> [w EXCEPT !.alive = SetAt(w.alive, id, 1)], id |-> id]
        ELSE LET id == w.nextEntity
                 w1 == [w EXCEPT !.nextEntity = (id + 1) % EntityRange]
                 w2 == ensureEntity(w1, id)
             IN  [w |-> [w2 EXCEPT !.alive = SetAt(w2.alive, id, 1)], id |-> id]

\* create_entity: the World after the call and the id returned.  The counter
\* is an unsigned integer of EntityBits bits.
create_entity(w) ==
    LET id == w.nextEntity
        w1 == [w EXCEPT !.nextEntity = (id + 1) % EntityRange]
        w2 == ensureEntity(w1, id)
    IN  [w |-> [w2 EXCEPT !.alive = SetAt(w2.alive, id, 1)], id |-> id]

\* destroy_entity as it would be if it also detached the entity's components.
destroy_entityClearsFlags(w, e) ==
    IF e < Len(w.alive)
    THEN [w EXCEPT !.alive = SetAt(w.alive, e, 0),
                   !.pools = [k \in 1..Len(w.pools) |->
                                 IF w.pools[k].null \/ e >= Len(w.pools[k].mask)
                                 THEN w.pools[k]
                                 ELSE [w.pools[k] EXCEPT !.mask = SetAt(@, e, 0)]]]
    ELSE w

\* destroy_entity as it would be if it made room for an ID beyond the
\* liveness table in place of ignoring it.
destroy_entityMakesRoom(w, e) ==
    LET w1 == ensureEntity(w, e)
    IN  [w1 EXCEPT !.alive = SetAt(w1.alive, e, 0)]

\* destroy_entity
destroy_entity(w, e) ==
    IF e < Len(w.alive) THEN [w EXCEPT !.alive = SetAt(w.alive, e, 0)] ELSE w

\* add_component as it would be with the liveness test left out of step 1.
add_componentRangeCheckOnly(w, e, t, h, comp) ==
    IF e >= Len(w.alive)
    THEN [w |-> w, status |-> "ERROR"]
    ELSE LET r   == getTypeId(w, h)
             w1  == ensurePool(r.w, r.id, t)
             pl  == At(w1.pools, r.id)
             pl1 == [pl EXCEPT !.data = SetAt(pl.data, e, comp),
                               !.mask = SetAt(pl.mask, e, 1)]
         IN  [w |-> [w1 EXCEPT !.pools = SetAt(w1.pools, r.id, pl1)],
              status |-> "OK"]

\* add_component as it would be with steps 1 and 2 swapped: the type is
\* resolved before the entity is validated.
add_componentResolvesFirst(w, e, t, h, comp) ==
    LET r == getTypeId(w, h)
    IN  IF e >= Len(w.alive) \/ At(w.alive, e) = 0
        THEN [w |-> r.w, status |-> "ERROR"]
        ELSE LET w1  == ensurePool(r.w, r.id, t)
                 pl  == At(w1.pools, r.id)
                 pl1 == [pl EXCEPT !.data = SetAt(pl.data, e, comp),
                                   !.mask = SetAt(pl.mask, e, 1)]
             IN  [w |-> [w1 EXCEPT !.pools = SetAt(w1.pools, r.id, pl1)],
                  status |-> "OK"]

\* add_component as it would be with the assignment of step 4 left out: the
\* flag is set over whatever the slot holds.
add_componentFlagOnly(w, e, t, h, comp) ==
    IF e >= Len(w.alive) \/ At(w.alive, e) = 0
    THEN [w |-> w, status |-> "ERROR"]
    ELSE LET r   == getTypeId(w, h)
             w1  == ensurePool(r.w, r.id, t)
             pl  == At(w1.pools, r.id)
             pl1 == [pl EXCEPT !.mask = SetAt(pl.mask, e, 1)]
         IN  [w |-> [w1 EXCEPT !.pools = SetAt(w1.pools, r.id, pl1)],
              status |-> "OK"]

\* add_component<T>: the World after the call and the Status returned.
add_component(w, e, t, h, comp) ==
    IF e >= Len(w.alive) \/ At(w.alive, e) = 0
    THEN [w |-> w, status |-> "ERROR"]
    ELSE LET r   == getTypeId(w, h)
             w1  == ensurePool(r.w, r.id, t)
             pl  == At(w1.pools, r.id)
             pl1 == [pl EXCEPT !.data = SetAt(pl.data, e, comp),
                               !.mask = SetAt(pl.mask, e, 1)]
         IN  [w |-> [w1 EXCEPT !.pools = SetAt(w1.pools, r.id, pl1)],
              status |-> "OK"]

\* A T* into a pool's data vector (slot, index), or nullptr.
NullPtr == [null |-> TRUE, slot |-> 0, index |-> 0]

PtrTo(slot, index) == [null |-> FALSE, slot |-> slot, index |-> index]

\* The value a non-null pointer into World w's pools points at.
Deref(w, p) == At(At(w.pools, p.slot).data, p.index)

\* get_component as it would be if it made the pool of a type on first use.
get_componentMakesPool(w, e, h) ==
    LET r    == getTypeId(w, h)
        w1   == ensurePool(r.w, r.id, "made by get_component")
        pool == At(w1.pools, r.id)
    IN  IF e >= Len(pool.data) \/ At(pool.mask, e) = 0
        THEN [w |-> w1, ptr |-> NullPtr]
        ELSE [w |-> w1, ptr |-> PtrTo(r.id, e)]

\* get_component<T>: the World after the call and the pointer returned.
get_component(w, e, h) ==
    LET r == getTypeId(w, h)
    IN  IF r.id >= Len(r.w.pools) \/ At(r.w.pools, r.id).null
        THEN [w |-> r.w, ptr |-> NullPtr]
        ELSE LET pool == At(r.w.pools, r.id)
             IN  IF e >= Len(pool.data) \/ At(pool.mask, e) = 0
                 THEN [w |-> r.w, ptr |-> NullPtr]
                 ELSE [w |-> r.w, ptr |-> PtrTo(r.id, e)]

\* remove_component as it would be if it also reset the storage slot.
remove_componentErasesValue(w, e, h) ==
    LET r == getTypeId(w, h)
    IN  IF r.id >= Len(r.w.pools) \/ At(r.w.pools, r.id).null
        THEN [w |-> r.w, status |-> "ERROR"]
        ELSE LET pool == At(r.w.pools, r.id)
                 pl1  == IF e < Len(pool.mask)
                         THEN [pool EXCEPT !.mask = SetAt(pool.mask, e, 0),
                                           !.data = SetAt(pool.data, e, DefaultValue)]
                         ELSE pool
             IN  [w |-> [r.w EXCEPT !.pools = SetAt(r.w.pools, r.id, pl1)],
                  status |-> "OK"]

\* remove_component<T>: the World after the call and the Status returned.
remove_component(w, e, h) ==
    LET r == getTypeId(w, h)
    IN  IF r.id >= Len(r.w.pools) \/ At(r.w.pools, r.id).null
        THEN [w |-> r.w, status |-> "ERROR"]
        ELSE LET pool == At(r.w.pools, r.id)
                 pl1  == IF e < Len(pool.mask)
                         THEN [pool EXCEPT !.mask = SetAt(pool.mask, e, 0)]
                         ELSE pool
             IN  [w |-> [r.w EXCEPT !.pools = SetAt(r.w.pools, r.id, pl1)],
                  status |-> "OK"]

\* std::array<std::size_t, sizeof...(Ts)> types = { w.getTypeId<Ts>()... }:
\* the ids are resolved left to right, each call acting on the World the
\* previous one left.
RECURSIVE queryTypes(_, _)
queryTypes(w, hs) ==
    IF hs = <<>>
    THEN [w |-> w, ids |-> <<>>]
    ELSE LET r    == getTypeId(w, Head(hs))
             rest == queryTypes(r.w, Tail(hs))
         IN  [w |-> rest.w, ids |-> <<r.id>> \o rest.ids]

\* What a pointer computed from a null Pool<T>* is: it points at no pool.
WildPtr(e) == [null |-> FALSE, slot |-> -1, index |-> e]

\* The body of the fold expression as it would be without the flag test.
queryProbeIgnoresMask(w, id, e, junk) ==
    LET pl == At(w.pools, id)
    IN  IF pl.null
        THEN [match |-> junk, ptr |-> WildPtr(e)]
        ELSE IF e >= Len(pl.mask)
             THEN [match |-> FALSE, ptr |-> NullPtr]
             ELSE [match |-> TRUE, ptr |-> PtrTo(id, e)]

\* The body of the fold expression of query for pack element idx and entity
\* e.  The pool pointer is dereferenced unchecked; through an empty
\* unique_ptr the read of pl.mask is undefined, and junk says whether that
\* read happens to be taken as "flag set".
queryProbe(w, id, e, junk) ==
    LET pl == At(w.pools, id)
    IN  IF pl.null
        THEN [match |-> junk, ptr |-> WildPtr(e)]
        ELSE IF e >= Len(pl.mask) \/ At(pl.mask, e) = 0
             THEN [match |-> FALSE, ptr |-> NullPtr]
             ELSE [match |-> TRUE, ptr |-> PtrTo(id, e)]

\* The entity loop of query from entity e on: the visitor's invocations, in
\* the order they are made.
RECURSIVE queryScan(_, _, _, _)
queryScan(w, ids, e, junk) ==
    IF e >= w.nextEntity
    THEN <<>>
    ELSE IF e >= Len(w.alive) \/ At(w.alive, e) = 0
         THEN queryScan(w, ids, e + 1, junk)
         ELSE LET probes == [k \in 1..Len(ids) |-> queryProbe(w, ids[k], e, junk[e])]
                  match  == \A k \in 1..Len(ids) : probes[k].match
                  call   == [e |-> e, ptrs |-> [k \in 1..Len(ids) |-> probes[k].ptr]]
              IN  (IF match THEN <<call>> ELSE <<>>) \o queryScan(w, ids, e + 1, junk)

\* The entity loop dereferences an empty unique_ptr: some entity passes the
\* liveness test and some pack element's pool was never made.
queryHitsNull(w, ids) ==
    \E e \in 0..(w.nextEntity - 1) :
        /\ e < Len(w.alive)
        /\ At(w.alive, e) = 1
        /\ \E k \in 1..Len(ids) : At(w.pools, ids[k]).null

NoJunk == [e \in 0..(EntityRange - 1) |-> FALSE]

\* ----------------------------------------------------------------- actions

NoEntity == -1

\* The record of a call: which operation, on which World, with which
\* arguments, and everything it handed back to the caller.
Call(op, i, e, ts, v) ==
    [op |-> op, w |-> i, e |-> e, ts |-> ts, v |-> v,
     status |-> "none", id |-> NoEntity, ptr |-> NullPtr,
     visited |-> <<>>, ub |-> "none"]

Hashes(ts) == [k \in 1..Len(ts) |-> hashOf[ts[k]]]

CreateEntity(i, cap) ==
    /\ pc = "running"
    /\ worlds[i].nextEntity < cap
    /\ LET r == create_entity(worlds[i])
       IN  /\ worlds' = [worlds EXCEPT ![i] = r.w]
           /\ last' = [Call("create_entity", i, NoEntity, <<>>, 0) EXCEPT !.id = r.id]
    /\ UNCHANGED <<hashOf, pc>>

DestroyEntity(i, e) ==
    /\ pc = "running"
    /\ worlds' = [worlds EXCEPT ![i] = destroy_entity(worlds[i], e)]
    /\ last' = Call("destroy_entity", i, e, <<>>, 0)
    /\ UNCHANGED <<hashOf, pc>>

\* add_component as it would act if the pools were shared by every World
\* (static storage): the component lands in each of them.
AddComponentAllWorlds(i, e, t, v) ==
    /\ pc = "running"
    /\ worlds' = [j \in DOMAIN worlds |-> add_component(worlds[j], e, t, hashOf[t], v).w]
    /\ last' = [Call("add_component", i, e, <<t>>, v) EXCEPT
                   !.status = add_component(worlds[i], e, t, hashOf[t], v).status]
    /\ UNCHANGED <<hashOf, pc>>

AddComponent(i, e, t, v) ==
    /\ pc = "running"
    /\ LET r == add_component(worlds[i], e, t, hashOf[t], v)
       IN  /\ worlds' = [worlds EXCEPT ![i] = r.w]
           /\ last' = [Call("add_component", i, e, <<t>>, v) EXCEPT !.status = r.status]
    /\ UNCHANGED <<hashOf, pc>>

GetComponent(i, e, t) ==
    /\ pc = "running"
    /\ LET r == get_component(worlds[i], e, hashOf[t])
       IN  /\ worlds' = [worlds EXCEPT ![i] = r.w]
           /\ last' = [Call("get_component", i, e, <<t>>, 0) EXCEPT !.ptr = r.ptr]
    /\ UNCHANGED <<hashOf, pc>>

RemoveComponent(i, e, t) ==
    /\ pc = "running"
    /\ LET r == remove_component(worlds[i], e, hashOf[t])
       IN  /\ worlds' = [worlds EXCEPT ![i] = r.w]
           /\ last' = [Call("remove_component", i, e, <<t>>, 0) EXCEPT !.status = r.status]
    /\ UNCHANGED <<hashOf, pc>>

\* query<Ts...>(w, f) with a visitor f that records its arguments and leaves
\* the World alone.  When the entity loop dereferences an empty unique_ptr
\* the behaviour is undefined: the process dies on the read (a null page
\* fault), or the read yields junk and the loop goes on with it.
Query(i, ts) ==
    /\ pc = "running"
    /\ LET r == queryTypes(worlds[i], Hashes(ts))
           c == Call("query", i, NoEntity, ts, 0)
       IN  /\ worlds' = [worlds EXCEPT ![i] = r.w]
           /\ IF ~queryHitsNull(r.w, r.ids)
              THEN /\ last' = [c EXCEPT !.visited = queryScan(r.w, r.ids, 0, NoJunk)]
                   /\ pc' = pc
              ELSE \/ /\ last' = [c EXCEPT !.ub = "segv"]
                      /\ pc' = "crashed"
                   \/ \E junk \in [0..(r.w.nextEntity - 1) -> BOOLEAN] :
                          /\ last' = [c EXCEPT !.ub = "junk",
                                               !.visited = queryScan(r.w, r.ids, 0, junk)]
                          /\ pc' = pc
    /\ UNCHANGED hashOf

\* ----------------------------------------------------------------- history
\* What the callers have seen so far.  None of it is read by the operations.

\* Whether (e, T) carries a component in World w as the code sees it, and its
\* value: what get_component<T>(w, e) hands back.
Present(w, e, t) == ~get_component(w, e, hashOf[t]).ptr.null

ValueOf(w, e, t) ==
    LET r == get_component(w, e, hashOf[t]) IN Deref(r.w, r.ptr)

\* issued: create_entity's results in call order.
IssuedNext ==
    issued' = IF last'.op = "create_entity"
              THEN [issued EXCEPT ![last'.w] = Append(@, last'.id)]
              ELSE issued

\* added: the types of the add_component calls that returned OK.
AddedNext ==
    added' = IF last'.op = "add_component" /\ last'.status = "OK"
             THEN [added EXCEPT ![last'.w] = @ \cup {last'.ts[1]}]
             ELSE added

\* used: the types of the get_component, remove_component and query calls and
\* of the add_component calls that returned OK.
UsedNext ==
    used' = IF \/ last'.op \in {"get_component", "remove_component", "query"}
               \/ last'.op = "add_component" /\ last'.status = "OK"
            THEN [used EXCEPT ![last'.w] = @ \cup {last'.ts[k] : k \in 1..Len(last'.ts)}]
            ELSE used

\* destroyCalled: every destroy_entity call, with whether create_entity had
\* issued the ID by then.
DestroyCalledNext ==
    destroyCalled' =
        IF last'.op = "destroy_entity"
        THEN [destroyCalled EXCEPT ![last'.w] =
                 @ \cup {[e |-> last'.e,
                          issued |-> \E k \in 1..Len(issued[last'.w]) :
                                         issued[last'.w][k] = last'.e]}]
        ELSE destroyCalled

\* trail: a triple is "removed", with the value taken away, once
\* remove_component has taken away a component add_component had attached,
\* and "readded" right after the next successful add_component on it.
TrailNext ==
    LET here(r)  == r.w = last'.w /\ <<r.t>> = last'.ts /\ r.e = last'.e
        adds     == last'.op = "add_component" /\ last'.status = "OK"
        removes  == last'.op = "remove_component"
        kept     == {r \in trail : r.kind = "removed" /\ ~(adds /\ here(r))
                                                      /\ ~(removes /\ here(r))}
        w        == worlds[last'.w]
        e        == last'.e
        t        == last'.ts[1]
        mark(kind, old) == [w |-> last'.w, e |-> e, t |-> t, kind |-> kind, old |-> old]
    IN  trail' =
            IF adds
            THEN kept \cup {mark("readded", r.old) : r \in {x \in trail : here(x) /\ x.kind = "removed"}}
            ELSE IF removes
                 THEN kept \cup (IF Present(w, e, t)
                                 THEN {mark("removed", ValueOf(w, e, t))}
                                 ELSE {r \in trail : here(r) /\ r.kind = "removed"})
                 ELSE kept

\* The history every specification keeps: it adds no state of its own.
Seen == IssuedNext /\ AddedNext /\ UsedNext

\* ---------------------------------------------------------- specifications

\* typeid(T).hash_code() of the component types: distinct types, distinct codes.
TypeHash == "Position" :> 11 @@ "Velocity" :> 22 @@ "Health" :> 33

InitWorlds(ids) ==
    /\ worlds = [i \in ids |-> NewWorld]
    /\ hashOf = TypeHash
    /\ pc = "running"
    /\ last = Call("none", 0, NoEntity, <<>>, 0)
    /\ issued = [i \in ids |-> <<>>]
    /\ added = [i \in ids |-> {}]
    /\ used = [i \in ids |-> {}]
    /\ destroyCalled = [i \in ids |-> {}]
    /\ trail = {}

\* Entity arguments the callers pass: every ID issued so far and the first
\* one not issued yet.
EntityArgs(i) == 0..worlds[i].nextEntity

\* One World and two component types, used through every operation.
Init == InitWorlds({1})

Next ==
    /\ \/ CreateEntity(1, MaxEntities)
       \/ \E e \in EntityArgs(1) : DestroyEntity(1, e)
       \/ \E e \in EntityArgs(1), t \in Types, v \in Values : AddComponent(1, e, t, v)
       \/ \E e \in EntityArgs(1), t \in Types : GetComponent(1, e, t)
       \/ \E e \in EntityArgs(1), t \in Types : RemoveComponent(1, e, t)
       \/ \E ts \in QueryPacksDistinct(Types) : Query(1, ts)
    /\ Seen
    /\ UNCHANGED <<destroyCalled, trail>>

Spec == Init /\ [][Next]_vars

\* One World, two component types and one value, with the history of the
\* destroy_entity calls kept.
NextDestroy ==
    /\ \/ CreateEntity(1, MaxEntities)
       \/ \E e \in EntityArgs(1) : DestroyEntity(1, e)
       \/ \E e \in EntityArgs(1), t \in Types, v \in ValuesOne : AddComponent(1, e, t, v)
       \/ \E e \in EntityArgs(1), t \in Types : GetComponent(1, e, t)
       \/ \E e \in EntityArgs(1), t \in Types : RemoveComponent(1, e, t)
       \/ \E ts \in QueryPacksDistinct(Types) : Query(1, ts)
    /\ Seen
    /\ DestroyCalledNext
    /\ UNCHANGED trail

SpecDestroy == Init /\ [][NextDestroy]_vars

\* One World and one component type, with the history of the add/remove
\* patterns kept.
NextTrail ==
    /\ \/ CreateEntity(1, MaxEntities)
       \/ \E e \in EntityArgs(1) : DestroyEntity(1, e)
       \/ \E e \in EntityArgs(1), t \in TypesTwo, v \in Values : AddComponent(1, e, t, v)
       \/ \E e \in EntityArgs(1), t \in TypesTwo : GetComponent(1, e, t)
       \/ \E e \in EntityArgs(1), t \in TypesTwo : RemoveComponent(1, e, t)
       \/ \E ts \in QueryPacks(TypesTwo) : Query(1, ts)
    /\ Seen
    /\ TrailNext
    /\ UNCHANGED destroyCalled

SpecTrail == Init /\ [][NextTrail]_vars

\* Two Worlds constructed side by side, one component type and one value,
\* each World used through every operation.
InitTwo == InitWorlds({1, 2})

NextTwo ==
    /\ \E i \in {1, 2} :
          \/ CreateEntity(i, MaxEntitiesTwo)
          \/ \E e \in EntityArgs(i) : DestroyEntity(i, e)
          \/ \E e \in EntityArgs(i), t \in TypesTwo, v \in ValuesOne : AddComponent(i, e, t, v)
          \/ \E e \in EntityArgs(i), t \in TypesTwo : GetComponent(i, e, t)
          \/ \E e \in EntityArgs(i), t \in TypesTwo : RemoveComponent(i, e, t)
          \/ \E ts \in QueryPacks(TypesTwo) : Query(i, ts)
    /\ Seen
    /\ UNCHANGED <<destroyCalled, trail>>

SpecTwo == InitTwo /\ [][NextTwo]_vars

\* The values typeid(T).hash_code() may take: the standard leaves the value
\* unspecified and lets two types share one.
HashCodes == {11, 22}

\* Pack element t resolves, in World i, to a slot that holds a Pool<U> with
\* U # t: the static_cast at the access site yields a Pool<t>* to an object
\* of another type.
Confused(i, t) ==
    LET w == worlds[i]
    IN  /\ hashOf[t] \in DOMAIN w.typeMap
        /\ ~At(w.pools, w.typeMap[hashOf[t]]).null
        /\ At(w.pools, w.typeMap[hashOf[t]]).type # t

\* The call reaches its access site: add_component past its entity test, the
\* fold expression of query for some Alive entity below the counter,
\* get_component and remove_component always.
ReachesPool(i, op, e) ==
    LET w == worlds[i]
    IN  CASE op = "add_component" -> e < Len(w.alive) /\ At(w.alive, e) = 1
          [] op = "query" -> \E x \in 0..(w.nextEntity - 1) :
                                 x < Len(w.alive) /\ At(w.alive, x) = 1
          [] OTHER -> TRUE

\* A call whose access site uses a pool through a pointer of the wrong type.
\* The behaviour is undefined: the process dies here, or the access goes
\* through on the other type's storage as the call's own action describes.
ConfusedAccess(i, op, e, ts) ==
    /\ pc = "running"
    /\ ReachesPool(i, op, e)
    /\ \E k \in 1..Len(ts) : Confused(i, ts[k])
    /\ pc' = "crashed"
    /\ last' = [Call(op, i, e, ts, 0) EXCEPT !.ub = "type confusion"]
    /\ UNCHANGED <<worlds, hashOf>>

\* One World and two component types whose hash codes are any of HashCodes,
\* equal ones included.
InitHash ==
    /\ worlds = [i \in {1} |-> NewWorld]
    /\ hashOf \in [Types -> HashCodes]
    /\ pc = "running"
    /\ last = Call("none", 0, NoEntity, <<>>, 0)
    /\ issued = [i \in {1} |-> <<>>]
    /\ added = [i \in {1} |-> {}]
    /\ used = [i \in {1} |-> {}]
    /\ destroyCalled = [i \in {1} |-> {}]
    /\ trail = {}

NextHash ==
    /\ \/ CreateEntity(1, MaxEntitiesTwo)
       \/ \E e \in EntityArgs(1) : DestroyEntity(1, e)
       \/ \E e \in EntityArgs(1), t \in Types, v \in ValuesOne : AddComponent(1, e, t, v)
       \/ \E e \in EntityArgs(1), t \in Types : GetComponent(1, e, t)
       \/ \E e \in EntityArgs(1), t \in Types : RemoveComponent(1, e, t)
       \/ \E ts \in QueryPacksDistinct(Types) : Query(1, ts)
       \/ \E e \in EntityArgs(1), t \in Types,
             op \in {"add_component", "get_component", "remove_component"} :
              ConfusedAccess(1, op, e, <<t>>)
       \/ \E ts \in QueryPacksDistinct(Types) : ConfusedAccess(1, "query", NoEntity, ts)
    /\ Seen
    /\ UNCHANGED <<destroyCalled, trail>>

SpecHash == InitHash /\ [][NextHash]_vars

\* The entity arguments of the callers of a World whose counter wraps: the
\* IDs the counter reaches again after wrapping.
WrapArgs == 0..MaxWrapped

\* One World and one component type, with create_entity called through the
\* whole range of the counter and MaxWrapped times more.
NextWrap ==
    /\ \/ /\ Len(issued[1]) < EntityRange + MaxWrapped
          /\ CreateEntity(1, EntityRange)
       \/ \E e \in WrapArgs : DestroyEntity(1, e)
       \/ \E e \in WrapArgs, t \in TypesTwo, v \in ValuesOne : AddComponent(1, e, t, v)
       \/ \E e \in WrapArgs, t \in TypesTwo : GetComponent(1, e, t)
       \/ \E e \in WrapArgs, t \in TypesTwo : RemoveComponent(1, e, t)
       \/ \E ts \in QueryPacks(TypesTwo) : Query(1, ts)
    /\ Seen
    /\ UNCHANGED <<destroyCalled, trail>>

SpecWrap == Init /\ [][NextWrap]_vars

\* ------------------------------------------------------------------ claims

\* The World the last call acted on.
W == worlds[last.w]

IssuedSet(i) == {issued[i][k] : k \in 1..Len(issued[i])}

\* The liveness flag of e in World w is set.
Alive(w, e) == e < Len(w.alive) /\ At(w.alive, e) = 1

\* The pool World w holds for type t, or NullPool.
PoolOf(w, t) ==
    IF hashOf[t] \in DOMAIN w.typeMap
    THEN At(w.pools, w.typeMap[hashOf[t]])
    ELSE NullPool

\* The presence flag of (e, t) in World w is set.
HasFlag(w, e, t) ==
    LET p == PoolOf(w, t)
    IN  ~p.null /\ e < Len(p.mask) /\ At(p.mask, e) = 1

\* The value stored for (e, t) in World w, whatever its presence flag says.
StoredValue(w, e, t) == At(PoolOf(w, t).data, e)

PackTypes(ts) == {ts[k] : k \in 1..Len(ts)}

\* The entity IDs of the visitor's invocations, in order.
VisitedIds(visited) == [k \in 1..Len(visited) |-> visited[k].e]

\* C1: a query over types that were each added successfully at least once
\* invokes the visitor exactly once for each entity that is Alive and has the
\* presence flag of every type of the pack set, for no other ID, in strictly
\* ascending ID order.
C1_QueryVisitsExactlyTheMatchingEntities ==
    (last.op = "query" /\ PackTypes(last.ts) \subseteq added[last.w]) =>
        LET ids == VisitedIds(last.visited)
        IN  /\ last.ub = "none"
            /\ \A k \in 1..(Len(ids) - 1) : ids[k] < ids[k + 1]
            /\ {ids[k] : k \in 1..Len(ids)} =
                   {e \in 0..(EntityRange - 1) :
                        Alive(W, e) /\ \A t \in PackTypes(last.ts) : HasFlag(W, e, t)}

\* A query over two types, both added before, has visited entity 0 and then
\* entity 1.
C1_Witness ==
    /\ last.op = "query"
    /\ Len(last.ts) = 2
    /\ PackTypes(last.ts) \subseteq added[last.w]
    /\ VisitedIds(last.visited) = <<0, 1>>

\* C2 (as stated): a query naming a type that was never added successfully,
\* on a World with an Alive entity, makes that type's pool, returns normally
\* and invokes the visitor for no entity.
C2_QueryOnTypeWithoutPoolReturnsNormally ==
    [][(/\ last'.op = "query"
        /\ ~(PackTypes(last'.ts) \subseteq added[last'.w])
        /\ \E e \in 0..(EntityRange - 1) : Alive(worlds[last'.w], e))
       => (/\ last'.ub = "none"
           /\ pc' = "running"
           /\ last'.visited = <<>>
           /\ \A t \in PackTypes(last'.ts) : ~PoolOf(worlds'[last'.w], t).null)]_vars

\* C5: the k-th create_entity call on a fresh World returns k-1, whatever
\* calls are made in between; so no ID is returned twice, destroyed or not.
C5_KthCreateReturnsKMinusOne ==
    \A i \in DOMAIN issued : \A k \in 1..Len(issued[i]) : issued[i][k] = k - 1

\* create_entity has just returned 1 while entity 0 was already destroyed.
C5_Witness ==
    /\ last.op = "create_entity"
    /\ last.id = 1
    /\ ~Alive(W, 0)

\* C3: a successful add_component<T>(w, e, v) makes get_component<T>(w, e)
\* hand back v, a remove_component<T>(w, e) makes it report absent, and
\* every other call (a failed add_component on the pair included) leaves
\* what it hands back for (e, T) as it was.
C3_GetFollowsLastAddOrRemove ==
    [][\A i \in DOMAIN worlds, e \in 0..MaxEntities, t \in Types :
          LET subject == last'.w = i /\ last'.e = e /\ last'.ts = <<t>>
              before  == get_component(worlds[i], e, hashOf[t])
              after   == get_component(worlds'[i], e, hashOf[t])
          IN  IF subject /\ last'.op = "add_component" /\ last'.status = "OK"
              THEN /\ ~after.ptr.null
                   /\ Deref(after.w, after.ptr) = last'.v
              ELSE IF subject /\ last'.op = "remove_component"
                   THEN after.ptr.null
                   ELSE \/ worlds'[i] = worlds[i]
                        \/ /\ after.ptr.null = before.ptr.null
                           /\ ~before.ptr.null =>
                                  Deref(after.w, after.ptr) = Deref(before.w, before.ptr)]_vars

\* get_component has just handed back the value 1 for entity 0 after a second
\* entity was created and the entity carries both types.
C3_Witness ==
    /\ last.op = "get_component"
    /\ last.e = 0
    /\ ~last.ptr.null
    /\ Deref(W, last.ptr) = 1
    /\ W.nextEntity = 2
    /\ \A t \in Types : HasFlag(W, 0, t)

\* The IDs destroy_entity was called with, and those among them that
\* create_entity had issued by then.
DestroyedIds(i) == {r.e : r \in destroyCalled[i]}

DestroyedIssued(i) == {r.e : r \in {x \in destroyCalled[i] : x.issued}}

\* C4 (as stated): add_component returns ERROR exactly when e was never issued
\* or is Dead, and after any destroy_entity(w, e) every later add_component
\* on e returns ERROR.
C4_AddFailsAfterAnyDestroy ==
    last.op = "add_component" =>
        /\ last.status = "ERROR" <=>
               (last.e \notin IssuedSet(last.w) \/ last.e \in DestroyedIssued(last.w))
        /\ last.e \in DestroyedIds(last.w) => last.status = "ERROR"

\* C4 (amended): add_component returns ERROR exactly when e was never issued
\* or was destroyed after it was issued, and OK otherwise.
C4_AddFailsIffNotIssuedOrDestroyed ==
    last.op = "add_component" =>
        (last.status = "ERROR" <=>
            (last.e \notin IssuedSet(last.w) \/ last.e \in DestroyedIssued(last.w)))

\* add_component has just failed on entity 0, destroyed after it was issued,
\* with a second entity created since.
C4_Witness ==
    /\ last.op = "add_component"
    /\ last.status = "ERROR"
    /\ last.e = 0
    /\ 0 \in DestroyedIssued(last.w)
    /\ Len(issued[last.w]) = 2

\* C6 (as stated): remove_component<T> returns ERROR only when T was never
\* used against the World before the call.
C6_RemoveFailsOnlyOnUnusedType ==
    [][last'.op = "remove_component" =>
          (last'.status = "ERROR" => last'.ts[1] \notin used[last'.w])]_vars

\* C6 (amended): remove_component<T> returns ERROR exactly when no
\* add_component<T> has succeeded on the World before the call.
C6_RemoveFailsIffTypeNeverAdded ==
    [][last'.op = "remove_component" =>
          (last'.status = "ERROR" <=> last'.ts[1] \notin added[last'.w])]_vars

\* remove_component has just failed for a type the registry knows, on an
\* Alive entity that carries the other type.
C6_Witness ==
    /\ last.op = "remove_component"
    /\ last.status = "ERROR"
    /\ Alive(W, last.e)
    /\ W.typeCounter = 2
    /\ \E t \in Types : HasFlag(W, last.e, t)

\* C7 (as stated): a call of add_component or remove_component that returns
\* ERROR leaves the whole World as it was.
C7_ErrorLeavesWorldUnchanged ==
    [][(last'.op \in {"add_component", "remove_component"} /\ last'.status = "ERROR")
          => worlds'[last'.w] = worlds[last'.w]]_vars

\* C7 (amended): add_component returning ERROR leaves the whole World as it
\* was; remove_component returning ERROR leaves the liveness table, the entity
\* counter and every pool as they were, and changes the registry at most by
\* giving T the next slot, with an empty entry in the pool-slot table.
C7_ErrorChangesAtMostTheRegistry ==
    [][\A i \in DOMAIN worlds :
          (last'.w = i /\ last'.status = "ERROR") =>
              LET old == worlds[i]
                  new == worlds'[i]
                  h   == hashOf[last'.ts[1]]
              IN  IF last'.op = "add_component" \/ h \in DOMAIN old.typeMap
                  THEN new = old
                  ELSE /\ new.alive = old.alive
                       /\ new.nextEntity = old.nextEntity
                       /\ new.typeMap = (h :> old.typeCounter) @@ old.typeMap
                       /\ new.typeCounter = old.typeCounter + 1
                       /\ Len(new.pools) >= Len(old.pools)
                       /\ \A k \in 1..Len(new.pools) :
                              IF k <= Len(old.pools)
                              THEN new.pools[k] = old.pools[k]
                              ELSE new.pools[k].null]_vars

\* remove_component has just failed for a type it gave the second slot,
\* while the other type's pool holds a component.
C7_Witness ==
    /\ last.op = "remove_component"
    /\ last.status = "ERROR"
    /\ W.typeMap[hashOf[last.ts[1]]] = 1
    /\ \E e \in 0..(EntityRange - 1), t \in Types : HasFlag(W, e, t)

\* C8: a call on one World leaves every other World as it was, and with it
\* what get_component hands back there.
C8_OtherWorldsUnchanged ==
    [][\A j \in DOMAIN worlds :
          j # last'.w =>
              /\ worlds'[j] = worlds[j]
              /\ \A e \in 0..MaxEntitiesTwo, t \in TypesTwo :
                     Present(worlds'[j], e, t) = Present(worlds[j], e, t)]_vars

\* get_component has just reported absent for entity 0 of World 2 while
\* entity 0 of World 1 carries the same type.
C8_Witness ==
    /\ last.op = "get_component"
    /\ last.w = 2
    /\ last.e = 0
    /\ last.ptr.null
    /\ Alive(worlds[2], 0)
    /\ HasFlag(worlds[1], 0, last.ts[1])
    /\ StoredValue(worlds[1], 0, last.ts[1]) = 1

\* What query<Ts...> hands to its visitor on World w when every pool exists.
QueryResult(w, ts) ==
    LET r == queryTypes(w, Hashes(ts)) IN queryScan(r.w, r.ids, 0, NoJunk)

\* The add_component call made last is the third of add, remove, add on its
\* (entity, type) pair.
Readded == {r \in trail : /\ r.kind = "readded"
                           /\ r.w = last.w
                           /\ r.e = last.e
                           /\ <<r.t>> = last.ts}

\* C9: after add_component(v1), remove_component, add_component(v2) on an
\* Alive entity, get_component hands back v2 and query<T> visits the entity
\* with a pointer to v2.
C9_ReaddedValueIsVisible ==
    (last.op = "add_component" /\ last.status = "OK" /\ Readded # {}) =>
        /\ Present(W, last.e, last.ts[1])
        /\ ValueOf(W, last.e, last.ts[1]) = last.v
        /\ \E k \in 1..Len(QueryResult(W, last.ts)) :
              /\ QueryResult(W, last.ts)[k].e = last.e
              /\ Deref(W, QueryResult(W, last.ts)[k].ptrs[1]) = last.v

\* The value added last differs from the one removed before it.
C9_Witness ==
    /\ last.op = "add_component"
    /\ last.status = "OK"
    /\ \E r \in Readded : r.old # last.v

\* C10: destroy_entity(w, e) leaves what get_component<T>(w, e) hands back as
\* it was, for every T, and query<T> does not visit e afterwards.
C10_DestroyKeepsComponentsHidesEntity ==
    [][last'.op = "destroy_entity" =>
          \A t \in Types :
              LET old == worlds[last'.w]
                  new == worlds'[last'.w]
                  e   == last'.e
              IN  /\ Present(new, e, t) = Present(old, e, t)
                  /\ Present(old, e, t) =>
                         /\ ValueOf(new, e, t) = ValueOf(old, e, t)
                         /\ \A k \in 1..Len(QueryResult(new, <<t>>)) :
                                QueryResult(new, <<t>>)[k].e # e]_vars

\* destroy_entity has just been called on an entity that carries a component
\* of value 1, which get_component still hands back.
C10_Witness ==
    /\ last.op = "destroy_entity"
    /\ ~Alive(W, last.e)
    /\ \E t \in Types : Present(W, last.e, t) /\ ValueOf(W, last.e, t) = 1

\* C11 (as stated): a get_component call that reports absent leaves the whole
\* World as it was, the registry included, also for a type never used before.
C11_AbsentGetLeavesWorldUnchanged ==
    [][(last'.op = "get_component" /\ last'.ptr.null)
          => worlds'[last'.w] = worlds[last'.w]]_vars

\* C11 (amended): a get_component<T> call that reports absent leaves the
\* liveness table, the entity counter and every pool as they were; it leaves
\* the registry as it was when T has a slot, and otherwise gives T the next
\* slot, with an empty entry in the pool-slot table.
C11_AbsentGetChangesAtMostTheRegistry ==
    [][\A i \in DOMAIN worlds :
          (last'.w = i /\ last'.op = "get_component" /\ last'.ptr.null) =>
              LET old == worlds[i]
                  new == worlds'[i]
                  h   == hashOf[last'.ts[1]]
              IN  IF h \in DOMAIN old.typeMap
                  THEN new = old
                  ELSE /\ new.alive = old.alive
                       /\ new.nextEntity = old.nextEntity
                       /\ new.typeMap = (h :> old.typeCounter) @@ old.typeMap
                       /\ new.typeCounter = old.typeCounter + 1
                       /\ Len(new.pools) = old.typeCounter + 1
                       /\ \A k \in 1..Len(new.pools) :
                              IF k <= Len(old.pools)
                              THEN new.pools[k] = old.pools[k]
                              ELSE new.pools[k].null]_vars

\* get_component has just reported absent for a type that holds the second
\* slot without a pool, on an Alive entity that carries the other type.
C11_Witness ==
    /\ last.op = "get_component"
    /\ last.ptr.null
    /\ W.typeMap[hashOf[last.ts[1]]] = 1
    /\ PoolOf(W, last.ts[1]).null
    /\ Alive(W, last.e)
    /\ \E t \in Types : HasFlag(W, last.e, t)

\* C12 (as stated): the entity create_entity has just returned carries no
\* component: get_component reports absent on it for every type, and no query
\* made in that state visits it, whichever pools exist.
C12_NewEntityCarriesNothing ==
    [][last.op = "create_entity" =>
          /\ \A t \in Types : ~Present(worlds[last.w], last.id, t)
          /\ (last'.op = "query" /\ last'.w = last.w) =>
                 \A k \in 1..Len(last'.visited) : last'.visited[k].e # last.id]_vars

\* The sum of the values a sequence of pointers into World w points at.
RECURSIVE SumDeref(_, _)
SumDeref(w, ptrs) ==
    IF ptrs = <<>> THEN 0 ELSE Deref(w, Head(ptrs)) + SumDeref(w, Tail(ptrs))

\* The sum of what get_component<T> hands back over a set of entities, taken
\* in any order.
RECURSIVE SumGet(_, _, _)
SumGet(w, es, t) ==
    IF es = {} THEN 0
    ELSE LET e == CHOOSE x \in es : TRUE
         IN  ValueOf(w, e, t) + SumGet(w, es \ {e}, t)

\* C13 (as stated): query<T> hands its visitor, for every entity it visits,
\* the pointer get_component<T> returns for that entity; it visits exactly the
\* Alive entities for which get_component<T> is not absent, each once; so the
\* sum of the values taken over the query equals the sum taken over the
\* get_component lookups of those entities.
C13_QueryAgreesWithGet ==
    [][(last'.op = "query" /\ Len(last'.ts) = 1) =>
          LET w    == worlds'[last'.w]
              t    == last'.ts[1]
              vis  == last'.visited
              ids  == {vis[k].e : k \in 1..Len(vis)}
              ptrs == [k \in 1..Len(vis) |-> vis[k].ptrs[1]]
          IN  /\ \A k \in 1..Len(vis) :
                     /\ Present(w, vis[k].e, t)
                     /\ vis[k].ptrs[1] = get_component(w, vis[k].e, hashOf[t]).ptr
              /\ ids = {e \in 0..(EntityRange - 1) : Alive(w, e) /\ Present(w, e, t)}
              /\ Cardinality(ids) = Len(vis)
              /\ SumDeref(w, ptrs) = SumGet(w, ids, t)]_vars

\* The materialized pools of World w, by slot.
Materialized(w) == {k \in 1..Len(w.pools) : ~w.pools[k].null}

\* C15: every materialized pool has a values array and a presence array of
\* one length, which is the number of entities ever created in the World,
\* the length of the liveness table and the value of the entity counter; and
\* no step makes a pool shorter or takes it away.
C15_PoolLengthsFollowEntityCount ==
    [][\A i \in DOMAIN worlds :
          LET old == worlds[i]
              new == worlds'[i]
          IN  /\ \A k \in Materialized(new) :
                     /\ Len(new.pools[k].data) = Len(new.pools[k].mask)
                     /\ Len(new.pools[k].data) = Len(issued'[i])
                     /\ Len(new.pools[k].data) = Len(new.alive)
                     /\ Len(new.pools[k].data) = new.nextEntity
              /\ \A k \in Materialized(old) :
                     /\ k \in Materialized(new)
                     /\ Len(new.pools[k].data) >= Len(old.pools[k].data)
                     /\ Len(new.pools[k].mask) >= Len(old.pools[k].mask)]_vars

\* create_entity has just issued the second entity of a World whose two
\* pools were made before, and both pools have grown to two slots.
C15_Witness ==
    /\ last.op = "create_entity"
    /\ last.id = 1
    /\ Cardinality(Materialized(W)) = 2
    /\ \A k \in Materialized(W) : Len(W.pools[k].data) = 2 /\ Len(W.pools[k].mask) = 2

\* C16 (as stated): within one World no two distinct types that were used
\* hold the same slot, a slot once assigned to a type stays that type's, and
\* a call only ever reaches, for a type of its pack, a pool made for that
\* type; whatever hash codes the types have.
C16_SlotsAreNeverShared ==
    [][\A i \in DOMAIN worlds :
          LET old == worlds[i]
              new == worlds'[i]
          IN  /\ \A t1, t2 \in used'[i] :
                     t1 # t2 => new.typeMap[hashOf[t1]] # new.typeMap[hashOf[t2]]
              /\ \A t \in used[i] :
                     new.typeMap[hashOf[t]] = old.typeMap[hashOf[t]]
              /\ last'.w = i =>
                     \A t \in PackTypes(last'.ts) :
                         t \in used'[i] =>
                             PoolOf(new, t).null \/ PoolOf(new, t).type = t]_vars

\* World w has a storage slot for (e, t): t's pool exists and reaches e.
HasSlot(w, e, t) == ~PoolOf(w, t).null /\ e < Len(PoolOf(w, t).data)

\* C17: a successful add_component<T>(w, e, v) sets the value and the
\* presence flag of (e, T), whatever they were, and leaves the liveness
\* table, the entity counter and the flag and stored value of every other
\* (entity, type) pair as they were.
C17_AddChangesOnlyItsPair ==
    [][(last'.op = "add_component" /\ last'.status = "OK") =>
          LET old == worlds[last'.w]
              new == worlds'[last'.w]
              e   == last'.e
              t   == last'.ts[1]
          IN  /\ HasFlag(new, e, t)
              /\ StoredValue(new, e, t) = last'.v
              /\ new.alive = old.alive
              /\ new.nextEntity = old.nextEntity
              /\ \A x \in 0..(EntityRange - 1), u \in Types :
                     <<x, u>> # <<e, t>> =>
                         /\ HasFlag(new, x, u) = HasFlag(old, x, u)
                         /\ HasSlot(old, x, u) =>
                                /\ HasSlot(new, x, u)
                                /\ StoredValue(new, x, u) = StoredValue(old, x, u)]_vars

\* add_component has just stored 1 for entity 0, which carries the other
\* type too, while entity 1 carries the same type with the value 0.
C17_Witness ==
    /\ last.op = "add_component"
    /\ last.status = "OK"
    /\ last.e = 0
    /\ last.v = 1
    /\ \A u \in Types : HasFlag(W, 0, u)
    /\ HasFlag(W, 1, last.ts[1])
    /\ StoredValue(W, 1, last.ts[1]) = 0

\* C18: when T's pool exists, remove_component<T>(w, e) returns OK for every
\* e, Alive, Dead or never issued.  With e within the pool the World changes
\* at most in the presence flag of (e, T), which is clear afterwards; with e
\* beyond the pool the World does not change.  The stored value at (e, T),
\* every other flag and value and the liveness table stay as they were.
C18_RemoveClearsOnlyItsFlag ==
    [][(last'.op = "remove_component" /\ ~PoolOf(worlds[last'.w], last'.ts[1]).null) =>
          LET old  == worlds[last'.w]
              new  == worlds'[last'.w]
              e    == last'.e
              t    == last'.ts[1]
              slot == old.typeMap[hashOf[t]]
          IN  /\ last'.status = "OK"
              /\ IF HasSlot(old, e, t)
                 THEN /\ ~HasFlag(new, e, t)
                      /\ StoredValue(new, e, t) = StoredValue(old, e, t)
                      /\ new = [old EXCEPT !.pools[slot + 1].mask[e + 1] = 0]
                 ELSE new = old
              /\ new.alive = old.alive
              /\ \A x \in 0..(EntityRange - 1), u \in Types :
                     <<x, u>> # <<e, t>> =>
                         /\ HasFlag(new, x, u) = HasFlag(old, x, u)
                         /\ HasSlot(old, x, u) =>
                                /\ HasSlot(new, x, u)
                                /\ StoredValue(new, x, u) = StoredValue(old, x, u)]_vars

\* remove_component has just returned OK for a Dead entity whose slot still
\* holds the value 1, with the flag clear, while an Alive entity carries the
\* same type.
C18_Witness ==
    /\ last.op = "remove_component"
    /\ last.status = "OK"
    /\ last.e \in IssuedSet(last.w)
    /\ ~Alive(W, last.e)
    /\ ~HasFlag(W, last.e, last.ts[1])
    /\ StoredValue(W, last.e, last.ts[1]) = 1
    /\ \E x \in IssuedSet(last.w) : Alive(W, x) /\ HasFlag(W, x, last.ts[1])

\* C19: destroy_entity(w, e) on an issued e leaves the World as it was but
\* for the liveness flag of e, which is Dead afterwards; on an e already Dead
\* and on an e never issued it leaves the whole World as it was.
C19_DestroyChangesOnlyTheFlag ==
    [][last'.op = "destroy_entity" =>
          LET old == worlds[last'.w]
              new == worlds'[last'.w]
              e   == last'.e
          IN  IF e \in IssuedSet(last'.w)
              THEN /\ ~Alive(new, e)
                   /\ new = [old EXCEPT !.alive[e + 1] = 0]
                   /\ ~Alive(old, e) => new = old
              ELSE new = old]_vars

\* destroy_entity has just been called on an issued entity that carries a
\* component, in a World whose other entity is Alive and carries one too.
C19_Witness ==
    /\ last.op = "destroy_entity"
    /\ last.e \in IssuedSet(last.w)
    /\ ~Alive(W, last.e)
    /\ \E t \in Types : HasFlag(W, last.e, t)
    /\ \E x \in IssuedSet(last.w) : Alive(W, x) /\ \E t \in Types : HasFlag(W, x, t)

\* C20 (as stated): create_entity never returns an ID it has returned before
\* and never turns the liveness flag of a Dead entity back to Alive, also
\* once it has been called more often than the counter has values.
C20_CreateNeverReissues ==
    [][last'.op = "create_entity" =>
          /\ last'.id \notin IssuedSet(last'.w)
          /\ \A e \in IssuedSet(last'.w) :
                 ~Alive(worlds[last'.w], e) => ~Alive(worlds'[last'.w], e)]_vars

====
